---- MODULE Spec2Model ----
(***************************************************************************)
(* A model of src/src/main.py: the Boundary / JigsawPiece / Jigsaw object  *)
(* model, Jigsaw.merge_with, Jigsaw.find_all_connections and the greedy    *)
(* solver loop of __main__.                                                *)
(*                                                                         *)
(* Positions are numpy vectors whose components are multiples of 0.5.      *)
(* They are kept here in half-units: the vector array([x, y]) is the       *)
(* tuple <<2x, 2y>>, so array([0, -0.5]) is <<0, -1>> and a component is   *)
(* an integer of the program exactly when it is even here.                 *)
(*                                                                         *)
(* Objects live in a heap: heap.piece maps piece ids to JigsawPiece        *)
(* objects and heap.jigsaw maps jigsaw ids to Jigsaw objects (whose        *)
(* pieces field is a list of piece ids), so that aliasing, in-place        *)
(* mutation and deepcopy are what they are in the program.                 *)
(***************************************************************************)
EXTENDS Integers, Sequences, FiniteSets, TLC

\* Bounds of the model.
MaxPieces == 4
MaxLevel == 1
MaxApiPieces == 3
MaxCalls == 2
MaxGridLevel == 3

VARIABLES heap, jigsaws, global_connection_reports, pc, it, best, error, last, calls

vars == <<heap, jigsaws, global_connection_reports, pc, it, best, error, last, calls>>

----------------------------------------------------------------------------
\* Vectors (numpy arrays of two components, in half-units).

VAdd(a, b) == <<a[1] + b[1], a[2] + b[2]>>

VSub(a, b) == <<a[1] - b[1], a[2] - b[2]>>

\* A Python list is a tuple: the list whose k-th element is f[k], k in 1..n.
List(f) == f \o <<>>

----------------------------------------------------------------------------
\* Images: width, height and a pixel (an RGB triple) at every (i, j).

Pixel(v) == <<v, v, v>>

Image(w, h, level) ==
  [width |-> w, height |-> h,
   pixels |-> [xy \in (0..(w - 1)) \X (0..(h - 1)) |-> Pixel(level[xy])]
                @@ <<>>]

getpixel(image, i, j) == image.pixels[<<i, j>>]

\* The sizes of the piece images that are loaded.
Dims == {<<1, 1>>, <<1, 2>>, <<2, 2>>}

\* The images: every size of Dims, painted in one level.
Images ==
  {Image(d[1], d[2], [xy \in (0..(d[1] - 1)) \X (0..(d[2] - 1)) |-> v]) :
     d \in Dims, v \in 0..MaxLevel}

\* The file stems the pieces are named after, in directory order.
NameLists ==
  {<<"a", "b", "c", "d", "e", "f">>,
   <<"a", "b", "a-b", "c", "d", "e">>}

----------------------------------------------------------------------------
\* Boundary

Boundary(pixels, pos) == [pixels |-> pixels, pos |-> pos, is_internal |-> FALSE]

is_compatible_with(self, other) == Len(self.pixels) = Len(other.pixels)

SqDiff(p, q) ==
  (p[1] - q[1]) * (p[1] - q[1]) + (p[2] - q[2]) * (p[2] - q[2])
    + (p[3] - q[3]) * (p[3] - q[3])

RECURSIVE SumSqDiff(_, _, _)
SumSqDiff(ps, qs, i) ==
  IF i > Len(ps) THEN 0 ELSE SqDiff(ps[i], qs[i]) + SumSqDiff(ps, qs, i + 1)

\* other.pixels[i] raises IndexError when other is the shorter one.
compare_raises(self, other) == Len(other.pixels) < Len(self.pixels)

compare_difference_with(self, other) == SumSqDiff(self.pixels, other.pixels, 1)

\* Boundary.update_pos as it would be if it put the boundary where the piece is.
Boundary_update_pos_to_parent(self, parent_pos, parent_new_pos) ==
  [self EXCEPT !.pos = parent_new_pos]

Boundary_update_pos(self, parent_pos, parent_new_pos) ==
  [self EXCEPT !.pos = VAdd(VSub(self.pos, parent_pos), parent_new_pos)]

----------------------------------------------------------------------------
\* JigsawPiece

\* Top, left, bottom, right: the sides 1..4 of a piece.
Sides == 1..4

get_boundaries(image, pos) ==
  <<Boundary(List([i \in 1..image.width |-> getpixel(image, i - 1, 0)]),
             VAdd(pos, <<0, -1>>)),
    Boundary(List([j \in 1..image.height |-> getpixel(image, 0, j - 1)]),
             VAdd(pos, <<-1, 0>>)),
    Boundary(List([i \in 1..image.width |-> getpixel(image, i - 1, image.height - 1)]),
             VAdd(pos, <<0, 1>>)),
    Boundary(List([j \in 1..image.height |-> getpixel(image, image.width - 1, j - 1)]),
             VAdd(pos, <<1, 0>>))>>

JigsawPiece(name, image) ==
  [name |-> name, image |-> image, pos |-> <<0, 0>>,
   boundaries |-> get_boundaries(image, <<0, 0>>)]

\* update_pos as it would be if it built the boundaries anew at the new position.
update_pos_rebuild(self, pos) ==
  [self EXCEPT !.boundaries = get_boundaries(self.image, pos), !.pos = pos]

update_pos(self, pos) ==
  [self EXCEPT
     !.boundaries =
        List([s \in Sides |-> Boundary_update_pos(self.boundaries[s], self.pos, pos)]),
     !.pos = pos]

----------------------------------------------------------------------------
\* Jigsaw

Jigsaw(pieces) == [pieces |-> pieces]

RECURSIVE Join(_, _)
Join(names, k) ==
  IF k > Len(names) THEN ""
  ELSE IF k = Len(names) THEN names[k]
  ELSE names[k] \o "-" \o Join(names, k + 1)

name(H, j) ==
  Join(List([k \in 1..Len(H.jigsaw[j].pieces) |-> H.piece[H.jigsaw[j].pieces[k]].name]), 1)

\* A boundary object is referred to by its piece and its side.
BoundaryOf(H, ref) == H.piece[ref[1]].boundaries[ref[2]]

RECURSIVE boundaries_where(_, _, _, _)
boundaries_where(H, pieces, k, internal) ==
  IF k > Len(pieces) THEN <<>>
  ELSE SelectSeq(List([s \in Sides |-> <<pieces[k], s>>]),
                 LAMBDA ref : BoundaryOf(H, ref).is_internal = internal)
         \o boundaries_where(H, pieces, k + 1, internal)

internal_boundaries(H, j) == boundaries_where(H, H.jigsaw[j].pieces, 1, TRUE)

external_boundaries(H, j) == boundaries_where(H, H.jigsaw[j].pieces, 1, FALSE)

----------------------------------------------------------------------------
\* Jigsaw.merge_with

\* Lines 140-141: every piece of other is moved by the shift, in list order.
RECURSIVE translate(_, _, _, _)
translate(H, pieces, k, shift) ==
  IF k > Len(pieces) THEN H
  ELSE translate([H EXCEPT !.piece[pieces[k]] = update_pos(@, VAdd(@.pos, shift))],
                 pieces, k + 1, shift)

\* The overlap check as it would be if it counted the pieces of self only.
overlaps_self_only(H, self, other) ==
  LET pieces == H.jigsaw[self].pieces
  IN \E m, n \in 1..Len(pieces) : m # n /\ H.piece[pieces[m]].pos = H.piece[pieces[n]].pos

\* Lines 144-146: some position is counted more than once.
overlaps(H, self, other) ==
  LET pieces == H.jigsaw[self].pieces \o H.jigsaw[other].pieces
      piece_pos_list == List([k \in 1..Len(pieces) |-> H.piece[pieces[k]].pos])
  IN \E m, n \in 1..Len(piece_pos_list) : m # n /\ piece_pos_list[m] = piece_pos_list[n]

\* Lines 154-155: a boundary is flagged as internal.
flag_internal(H, ref) ==
  [H EXCEPT !.piece[ref[1]].boundaries[ref[2]].is_internal = TRUE]

\* The pair as it would be if its second element were other's boundary
\* where it is after the shift.
merged_boundary_pair_unshifted(H, ref, other_ref, join_pos_shift) ==
  LET boundary == BoundaryOf(H, ref)
      other_boundary == BoundaryOf(H, other_ref)
  IN <<[pixels |-> boundary.pixels, pos |-> boundary.pos,
        is_internal |-> boundary.is_internal,
        owner |-> <<H.piece[ref[1]].name, ref[2]>>],
       [pixels |-> other_boundary.pixels, pos |-> other_boundary.pos,
        is_internal |-> FALSE,
        owner |-> <<H.piece[other_ref[1]].name, other_ref[2]>>]>>

\* Lines 158-163: the pair that is reported. The first element is the
\* boundary of self as it is when the pair is made, the second a new Boundary
\* at the position other's boundary had before the shift. owner (the name of
\* the piece and the side the boundary belongs to) is not a field of the
\* program's Boundary: it records which boundary object the element is.
merged_boundary_pair(H, ref, other_ref, join_pos_shift) ==
  LET boundary == BoundaryOf(H, ref)
      other_boundary == BoundaryOf(H, other_ref)
      shifted_other_boundary ==
        Boundary(other_boundary.pixels, VSub(other_boundary.pos, join_pos_shift))
  IN <<[pixels |-> boundary.pixels, pos |-> boundary.pos,
        is_internal |-> boundary.is_internal,
        owner |-> <<H.piece[ref[1]].name, ref[2]>>],
       [pixels |-> shifted_other_boundary.pixels, pos |-> shifted_other_boundary.pos,
        is_internal |-> shifted_other_boundary.is_internal,
        owner |-> <<H.piece[other_ref[1]].name, other_ref[2]>>]>>

\* Lines 153-163: the body of the inner loop, for a boundary of self and a
\* boundary of other.
merge_pair(st, ref, other_ref, join_pos_shift) ==
  IF BoundaryOf(st.H, ref).pos = BoundaryOf(st.H, other_ref).pos
  THEN LET H1 == flag_internal(flag_internal(st.H, ref), other_ref)
       IN [st EXCEPT !.H = H1,
                     !.pairs = Append(@, merged_boundary_pair(H1, ref, other_ref,
                                                              join_pos_shift)),
                     !.k = @ + 1]
  ELSE [st EXCEPT !.k = @ + 1]

\* Lines 152-163: the inner loop for a boundary of self, over the list
\* other.external_boundaries was when the loop began; st.k is its place in
\* that list.
RECURSIVE merge_inner(_, _, _, _)
merge_inner(st, ref, other_refs, join_pos_shift) ==
  IF st.k > Len(other_refs) THEN st
  ELSE merge_inner(merge_pair(st, ref, other_refs[st.k], join_pos_shift),
                   ref, other_refs, join_pos_shift)

\* Lines 151-163: the outer loop, over the list refs that
\* self.external_boundaries was before the first flag was set; st.i is its
\* place in that list. other.external_boundaries is evaluated again for every
\* boundary of self.
RECURSIVE merge_outer(_, _, _, _)
merge_outer(st, refs, other, join_pos_shift) ==
  IF st.i > Len(refs) THEN st
  ELSE merge_outer([merge_inner([st EXCEPT !.k = 1], refs[st.i],
                                external_boundaries(st.H, other), join_pos_shift)
                      EXCEPT !.i = @ + 1],
                   refs, other, join_pos_shift)

\* Lines 150-163: the list merged_boundary_pairs and the heap after the loops.
merged_boundaries(H, self, other, join_pos_shift) ==
  merge_outer([H |-> H, pairs |-> <<>>, i |-> 1, k |-> 1],
              external_boundaries(H, self), other, join_pos_shift)

\* Line 166: self.pieces += other.pieces.
add_pieces(H, self, other) ==
  [H EXCEPT !.jigsaw[self].pieces = @ \o H.jigsaw[other].pieces]

\* merge_with as it would be if the overlap check came last, after the
\* boundaries were flagged and the pieces added.
merge_with_check_last(H, self, other, join_boundary_pos, other_join_boundary_pos) ==
  LET join_pos_shift == VSub(join_boundary_pos, other_join_boundary_pos)
      H1 == translate(H, H.jigsaw[other].pieces, 1, join_pos_shift)
      st == merged_boundaries(H1, self, other, join_pos_shift)
  IN IF overlaps(H1, self, other)
     THEN [raised |-> TRUE, H |-> add_pieces(st.H, self, other), ret |-> <<>>]
     ELSE [raised |-> FALSE, H |-> add_pieces(st.H, self, other), ret |-> st.pairs]

\* The call self.merge_with(other, join_boundary_pos, other_join_boundary_pos)
\* on the heap H: whether it raised InvalidJigsaw, the heap it leaves and the
\* list it returns.
merge_with(H, self, other, join_boundary_pos, other_join_boundary_pos) ==
  LET join_pos_shift == VSub(join_boundary_pos, other_join_boundary_pos)
      H1 == translate(H, H.jigsaw[other].pieces, 1, join_pos_shift)
      st == merged_boundaries(H1, self, other, join_pos_shift)
  IN IF overlaps(H1, self, other)
     THEN [raised |-> TRUE, H |-> H1, ret |-> <<>>]
     ELSE [raised |-> FALSE, H |-> add_pieces(st.H, self, other), ret |-> st.pairs]

----------------------------------------------------------------------------
\* Jigsaw.find_all_connections

\* deepcopy as it would be if it handed back the object itself.
deepcopy_alias(H, j) == [H |-> H, jigsaw |-> j]

\* copy.deepcopy of a Jigsaw: a new Jigsaw object whose pieces are new
\* JigsawPiece objects (with new boundaries) that have the values of the
\* pieces of j.
deepcopy(H, j) ==
  LET pieces == H.jigsaw[j].pieces
      base == Len(H.piece)
  IN [H |-> [piece |-> H.piece \o [k \in 1..Len(pieces) |-> H.piece[pieces[k]]],
             jigsaw |-> Append(H.jigsaw,
                               Jigsaw(List([k \in 1..Len(pieces) |-> base + k])))],
      jigsaw |-> Len(H.jigsaw) + 1]

\* The objects made by a call are garbage once it returns: what is left of
\* the heap H are the objects that existed in the heap H0 before the call.
collect(H, H0) ==
  [piece |-> SubSeq(H.piece, 1, Len(H0.piece)),
   jigsaw |-> SubSeq(H.jigsaw, 1, Len(H0.jigsaw))]

\* Lines 125-133: the body of the inner loop, for a boundary of self and a
\* boundary of other. The copies are merged; the heap that goes on is the
\* heap without the copies.
trial(st, ref, other_ref, self, other) ==
  IF ~is_compatible_with(BoundaryOf(st.H, ref), BoundaryOf(st.H, other_ref))
  THEN [st EXCEPT !.k = @ + 1]
  ELSE LET jigsaw_copy == deepcopy(st.H, self)
           other_jigsaw_copy == deepcopy(jigsaw_copy.H, other)
           merged == merge_with(other_jigsaw_copy.H, jigsaw_copy.jigsaw,
                                other_jigsaw_copy.jigsaw,
                                BoundaryOf(st.H, ref).pos, BoundaryOf(st.H, other_ref).pos)
       IN IF merged.raised
          THEN [st EXCEPT !.H = collect(merged.H, st.H), !.invalid = @ + 1, !.k = @ + 1]
          ELSE [st EXCEPT !.H = collect(merged.H, st.H),
                          !.valid_connections = Append(@, merged.ret),
                          !.k = @ + 1]

\* Lines 124-133: the inner loop for a boundary of self, over the list
\* other.external_boundaries was when the loop began; st.k is its place in
\* that list.
RECURSIVE find_inner(_, _, _, _, _)
find_inner(st, ref, other_refs, self, other) ==
  IF st.k > Len(other_refs) THEN st
  ELSE find_inner(trial(st, ref, other_refs[st.k], self, other),
                  ref, other_refs, self, other)

\* Lines 123-133: the outer loop, over the list refs that
\* self.external_boundaries was when the call began; st.i is its place in
\* that list.
RECURSIVE find_outer(_, _, _, _)
find_outer(st, refs, self, other) ==
  IF st.i > Len(refs) THEN st
  ELSE find_outer([find_inner([st EXCEPT !.k = 1], refs[st.i],
                              external_boundaries(st.H, other), self, other)
                     EXCEPT !.i = @ + 1],
                  refs, self, other)

\* The call self.find_all_connections(other) on the heap H: the heap it
\* leaves (H), the list it returns (valid_connections) and the number of
\* trials that raised InvalidJigsaw (invalid).
find_all_connections(H, self, other) ==
  find_outer([H |-> H, valid_connections |-> <<>>, invalid |-> 0, i |-> 1, k |-> 1],
             external_boundaries(H, self), self, other)

----------------------------------------------------------------------------
\* The solver loop of __main__ (lines 219-265).

\* itertools.combinations(jigsaws, 2): the pairs of list elements, in
\* lexicographic order of their indices.
RECURSIVE combinations_from(_, _)
combinations_from(list, i) ==
  IF i >= Len(list) THEN <<>>
  ELSE List([k \in 1..(Len(list) - i) |-> <<list[i], list[i + k]>>])
         \o combinations_from(list, i + 1)

combinations(list) == combinations_from(list, 1)

\* A score is the float sum(scores) / len(scores); it is kept as the two
\* integers, and two scores are compared as the quotients are.
ScoreLess(s, t) == s.sum * t.len < t.sum * s.len

ScoreLeq(s, t) == s.sum * t.len <= t.sum * s.len

RECURSIVE SumScores(_, _)
SumScores(group, k) ==
  IF k > Len(group) THEN 0
  ELSE compare_difference_with(group[k][1], group[k][2]) + SumScores(group, k + 1)

\* Lines 233-240.
connection_report(connection_group) ==
  [group |-> connection_group,
   score |-> [sum |-> SumScores(connection_group, 1), len |-> Len(connection_group)]]

\* The exception lines 233-240 raise for a group: an IndexError of
\* compare_difference_with, or the division by len(scores) = 0.
report_error(connection_group) ==
  IF \E k \in 1..Len(connection_group) :
       compare_raises(connection_group[k][1], connection_group[k][2])
  THEN "IndexError"
  ELSE IF Len(connection_group) = 0 THEN "ZeroDivisionError"
  ELSE "none"

\* The exception lines 232-244 raise for the list find_all_connections
\* returned: that of the first group that raises, else the ValueError of min
\* on an empty list.
reports_error(valid_connections) ==
  IF \E k \in 1..Len(valid_connections) : report_error(valid_connections[k]) # "none"
  THEN report_error(valid_connections[
         CHOOSE k \in 1..Len(valid_connections) :
           /\ report_error(valid_connections[k]) # "none"
           /\ \A m \in 1..(k - 1) : report_error(valid_connections[m]) = "none"])
  ELSE IF valid_connections = <<>> THEN "ValueError"
  ELSE "none"

\* min as it would be if it took the greatest score.
max_score(items) ==
  items[CHOOSE k \in 1..Len(items) :
          /\ \A m \in 1..Len(items) : ScoreLeq(items[m].score, items[k].score)
          /\ \A m \in 1..(k - 1) : ScoreLess(items[m].score, items[k].score)]

\* min(items, key = score): the first item of the least score.
min_score(items) ==
  items[CHOOSE k \in 1..Len(items) :
          /\ \A m \in 1..Len(items) : ScoreLeq(items[k].score, items[m].score)
          /\ \A m \in 1..(k - 1) : ScoreLess(items[k].score, items[m].score)]

\* The dict global_connection_reports is the list of its items in insertion
\* order.
in_reports(reports, report_key) == \E k \in 1..Len(reports) : reports[k].key = report_key

\* next(filter(lambda item: item.name == n, jigsaws)): the first jigsaw of
\* that name, 0 when there is none (StopIteration).
first_named(H, list, n) ==
  IF \E k \in 1..Len(list) : name(H, list[k]) = n
  THEN list[CHOOSE k \in 1..Len(list) :
              /\ name(H, list[k]) = n
              /\ \A m \in 1..(k - 1) : name(H, list[m]) # n]
  ELSE 0

\* Lines 254-260 as they would be if only the name of jigsaw_1 were looked for.
remove_merged_first(reports, name_1, name_2) ==
  SelectSeq(reports, LAMBDA r : ~(r.key[1] = name_1 \/ r.key[2] = name_1))

\* Lines 254-260.
remove_merged(reports, name_1, name_2) ==
  SelectSeq(reports,
            LAMBDA r : ~(r.key[1] = name_1 \/ r.key[2] = name_1
                          \/ r.key[1] = name_2 \/ r.key[2] = name_2))

\* list.remove(x) as it would be if it were list.pop(): the last element goes.
remove_pop(list, x) == SubSeq(list, 1, Len(list) - 1)

\* list.remove(x): the list without the first element that is x.
remove(list, x) ==
  IF \E k \in 1..Len(list) : list[k] = x
  THEN LET i == CHOOSE k \in 1..Len(list) : list[k] = x /\ \A m \in 1..(k - 1) : list[m] # x
       IN SubSeq(list, 1, i - 1) \o SubSeq(list, i + 1, Len(list))
  ELSE list

\* What the last step called, and what came of it.
Last(op, self, other, join_boundary_pos, other_join_boundary_pos, raised, ret, invalid) ==
  [op |-> op, self |-> self, other |-> other,
   join_boundary_pos |-> join_boundary_pos,
   other_join_boundary_pos |-> other_join_boundary_pos,
   raised |-> raised, ret |-> ret, invalid |-> invalid]

NoCall(op) == Last(op, 0, 0, <<0, 0>>, <<0, 0>>, FALSE, <<>>, 0)

NoBest == [key |-> <<"", "">>, jigsaw_1 |-> 0, jigsaw_2 |-> 0, group |-> <<>>,
           score |-> [sum |-> 0, len |-> 1]]

\* get_jigsaws (lines 21-35): one trivial jigsaw for every piece image of the
\* directory.
Loaded(n, names, images) ==
  /\ heap = [piece |-> List([p \in 1..n |-> JigsawPiece(names[p], images[p])]),
             jigsaw |-> List([g \in 1..n |-> Jigsaw(<<g>>)])]
  /\ jigsaws = List([k \in 1..n |-> k])
  /\ global_connection_reports = <<>>
  /\ it = 0
  /\ best = NoBest
  /\ error = "none"
  /\ last = NoCall("load")
  /\ calls = 0

Init ==
  /\ \E n \in 1..MaxPieces, names \in NameLists :
       \E images \in [1..n -> Images] : Loaded(n, names, images)
  /\ pc = "while"

\* Line 224.
While ==
  /\ pc = "while"
  /\ pc' = IF Len(jigsaws) > 1 THEN "for" ELSE "done"
  /\ it' = 1
  /\ last' = NoCall("while")
  /\ UNCHANGED <<heap, jigsaws, global_connection_reports, best, error, calls>>

\* Lines 231-244: the report of a pair is published, or an exception ends
\* the program.
Publish(report_key, jigsaw_1, jigsaw_2, found, connection_reports, raises) ==
  /\ heap' = found.H
  /\ last' = Last("find_all_connections", jigsaw_1, jigsaw_2, <<0, 0>>, <<0, 0>>,
                  FALSE, found.valid_connections, found.invalid)
  /\ IF raises # "none"
     THEN /\ error' = raises
          /\ pc' = "raised"
          /\ UNCHANGED <<global_connection_reports, it>>
     ELSE /\ global_connection_reports' =
               Append(global_connection_reports,
                      [key |-> report_key,
                       group |-> min_score(connection_reports).group,
                       score |-> min_score(connection_reports).score])
          /\ it' = it + 1
          /\ UNCHANGED <<pc, error>>

\* Lines 225-244: one pair of the for loop.
ForPair ==
  /\ pc = "for"
  /\ it <= Len(combinations(jigsaws))
  /\ \E pair \in {combinations(jigsaws)[it]} :
       \E report_key \in {<<name(heap, pair[1]), name(heap, pair[2])>>} :
         IF in_reports(global_connection_reports, report_key)
         THEN /\ it' = it + 1
              /\ last' = NoCall("continue")
              /\ UNCHANGED <<heap, global_connection_reports, pc, error>>
         ELSE \E found \in {find_all_connections(heap, pair[1], pair[2])} :
                Publish(report_key, pair[1], pair[2], found,
                        IF reports_error(found.valid_connections) # "none" THEN <<>>
                        ELSE List([k \in 1..Len(found.valid_connections) |->
                                     connection_report(found.valid_connections[k])]),
                        reports_error(found.valid_connections))
  /\ UNCHANGED <<jigsaws, best, calls>>

\* Lines 247-260: the best report is chosen, its jigsaws are looked up by
\* name and the reports of their names are removed.
Select ==
  /\ pc = "for"
  /\ it > Len(combinations(jigsaws))
  /\ IF global_connection_reports = <<>>
     THEN /\ error' = "ValueError"
          /\ pc' = "raised"
          /\ UNCHANGED <<best, global_connection_reports>>
     ELSE LET chosen == min_score(global_connection_reports)
              best_report_key == chosen.key
              jigsaw_1 == first_named(heap, jigsaws, best_report_key[1])
              jigsaw_2 == first_named(heap, jigsaws, best_report_key[2])
          IN IF jigsaw_1 = 0 \/ jigsaw_2 = 0
             THEN /\ error' = "StopIteration"
                  /\ pc' = "raised"
                  /\ UNCHANGED <<best, global_connection_reports>>
             ELSE /\ best' = [key |-> best_report_key, jigsaw_1 |-> jigsaw_1,
                              jigsaw_2 |-> jigsaw_2, group |-> chosen.group,
                              score |-> chosen.score]
                  /\ global_connection_reports' =
                       remove_merged(global_connection_reports,
                                     name(heap, jigsaw_1), name(heap, jigsaw_2))
                  /\ pc' = "commit"
                  /\ UNCHANGED error
  /\ last' = NoCall("select")
  /\ UNCHANGED <<heap, jigsaws, it, calls>>

\* Lines 262-265: the merge is made on the live jigsaws and the second one
\* leaves the list. (Line 263 renders and saves the image: it reads the
\* model and changes nothing of it.)
Commit ==
  /\ pc = "commit"
  /\ \E merged \in {merge_with(heap, best.jigsaw_1, best.jigsaw_2,
                                best.group[1][1].pos, best.group[1][2].pos)} :
        /\ heap' = merged.H
        /\ last' = Last("merge_with", best.jigsaw_1, best.jigsaw_2,
                        best.group[1][1].pos, best.group[1][2].pos,
                        merged.raised, merged.ret, 0)
        /\ IF merged.raised
           THEN /\ error' = "InvalidJigsaw"
                /\ pc' = "raised"
                /\ UNCHANGED jigsaws
           ELSE /\ jigsaws' = remove(jigsaws, best.jigsaw_2)
                /\ pc' = "while"
                /\ UNCHANGED error
  /\ UNCHANGED <<global_connection_reports, it, best, calls>>

Next == While \/ ForPair \/ Select \/ Commit

Spec == Init /\ [][Next]_vars

----------------------------------------------------------------------------
\* The methods of Jigsaw called directly on live jigsaws: any two jigsaws,
\* any anchors among the positions of their boundaries and pieces, in any
\* order, MaxCalls times. The caller drops a jigsaw that was merged into
\* another one, as line 264 does.

\* The pieces are of one size, square or not, of one colour, and have
\* letters as names.
InitApi ==
  /\ \E n \in 2..MaxApiPieces, d \in {<<1, 1>>, <<1, 2>>} :
       Loaded(n, <<"a", "b", "c", "d", "e", "f">>,
              [p \in 1..n |->
                 Image(d[1], d[2], [xy \in (0..(d[1] - 1)) \X (0..(d[2] - 1)) |-> 0])])
  /\ pc = "api"

\* The positions a caller may pass as the anchor of jigsaw j.
AnchorPositions(H, j) ==
  {H.piece[H.jigsaw[j].pieces[k]].boundaries[s].pos :
     k \in 1..Len(H.jigsaw[j].pieces), s \in Sides}
    \cup {H.piece[H.jigsaw[j].pieces[k]].pos : k \in 1..Len(H.jigsaw[j].pieces)}

Live == {jigsaws[k] : k \in 1..Len(jigsaws)}

CallMergeWith ==
  /\ pc = "api"
  /\ calls < MaxCalls
  /\ \E self \in Live, other \in Live :
       /\ self # other
       /\ \E join_boundary_pos \in AnchorPositions(heap, self),
             other_join_boundary_pos \in AnchorPositions(heap, other) :
            \E merged \in {merge_with(heap, self, other, join_boundary_pos,
                                      other_join_boundary_pos)} :
              /\ heap' = merged.H
              /\ jigsaws' = IF merged.raised THEN jigsaws ELSE remove(jigsaws, other)
              /\ last' = Last("merge_with", self, other, join_boundary_pos,
                              other_join_boundary_pos, merged.raised, merged.ret, 0)
  /\ calls' = calls + 1
  /\ UNCHANGED <<global_connection_reports, pc, it, best, error>>

CallFindAllConnections ==
  /\ pc = "api"
  /\ calls < MaxCalls
  /\ \E self \in Live, other \in Live :
       /\ self # other
       /\ \E found \in {find_all_connections(heap, self, other)} :
            /\ heap' = found.H
            /\ last' = Last("find_all_connections", self, other, <<0, 0>>, <<0, 0>>,
                            FALSE, found.valid_connections, found.invalid)
  /\ calls' = calls + 1
  /\ UNCHANGED <<jigsaws, global_connection_reports, pc, it, best, error>>

NextApi == CallMergeWith \/ CallFindAllConnections

SpecApi == InitApi /\ [][NextApi]_vars

----------------------------------------------------------------------------
\* The solver loop on the four pieces of a 2x2 source grid
\*
\*     A B
\*     C D
\*
\* Every piece is an image of 2x2 pixels. The pixels along a cut are the same
\* on both sides of it, so that the edges of true neighbours have difference
\* zero; the other pixels are any levels for which every other pair of edges
\* of two different pieces has a positive difference. The pieces are loaded in
\* any order.

\* The image of 2x2 pixels whose pixel at (x, y) has the level pxy.
GridPiece(p00, p10, p01, p11) ==
  Image(2, 2, (<<0, 0>> :> p00) @@ (<<1, 0>> :> p10)
                @@ (<<0, 1>> :> p01) @@ (<<1, 1>> :> p11))

\* The pieces A, B, C, D; px are the levels of the lower right pixel of B and
\* of the two lower pixels of C.
SourceGrid(px) ==
  <<GridPiece(0, 1, 2, 3),
    GridPiece(1, 1, 3, px[1]),
    GridPiece(2, 3, px[2], px[3]),
    GridPiece(3, px[1], px[3], 0)>>

\* Side s of cell i and side t of cell j are the two sides of a cut.
TrueNeighbours(i, s, j, t) ==
  <<i, s, j, t>> \in {<<1, 4, 2, 2>>, <<2, 2, 1, 4>>, <<3, 4, 4, 2>>, <<4, 2, 3, 4>>,
                      <<1, 3, 3, 1>>, <<3, 1, 1, 3>>, <<2, 3, 4, 1>>, <<4, 1, 2, 3>>}

\* The edges of the images match (difference zero) exactly where they are
\* true neighbours.
MatchOnlyNeighbours(images) ==
  \A i, j \in 1..4 : \A s, t \in Sides :
    i # j =>
      ((compare_difference_with(get_boundaries(images[i], <<0, 0>>)[s],
                                get_boundaries(images[j], <<0, 0>>)[t]) = 0)
         <=> TrueNeighbours(i, s, j, t))

Orders == {order \in [1..4 -> 1..4] : \A m, n \in 1..4 : m # n => order[m] # order[n]}

InitGrid ==
  /\ \E px \in [1..3 -> 0..MaxGridLevel], order \in Orders :
       /\ MatchOnlyNeighbours(SourceGrid(px))
       /\ Loaded(4, <<"a", "b", "c", "d">>,
                 [k \in 1..4 |-> SourceGrid(px)[order[k]]])
  /\ pc = "while"

SpecGrid == InitGrid /\ [][Next]_vars

----------------------------------------------------------------------------
\* Properties.

Pieces(j) == heap.jigsaw[j].pieces

AllPieces == 1..Len(heap.piece)

MergeReturned == last.op = "merge_with" /\ ~last.raised

MergeRaised == last.op = "merge_with" /\ last.raised

\* C1: Collision-freedom. After any successful merge_with, and in every live
\* jigsaw of every state, no two pieces of the same jigsaw have the same
\* position.
C1_CollisionFreedom ==
  \A j \in Live :
    \A m, n \in 1..Len(Pieces(j)) :
      m # n => heap.piece[Pieces(j)[m]].pos # heap.piece[Pieces(j)[n]].pos

\* A merge_with returned on live jigsaws and the jigsaw it was called on now
\* has three pieces.
C1_Witness == MergeReturned /\ Len(Pieces(last.self)) >= 3

Even(x) == x % 2 = 0

Horizontal(side) == side \in {1, 3}

\* C2: Positions stay on the integer grid. Every piece position has two
\* integer components, every boundary position one integer and one
\* half-integer component, and no published candidate pairs a top or bottom
\* edge with a left or right edge.
C2_IntegerGrid ==
  /\ \A p \in AllPieces :
       /\ Even(heap.piece[p].pos[1]) /\ Even(heap.piece[p].pos[2])
       /\ \A s \in Sides :
            Even(heap.piece[p].boundaries[s].pos[1])
              # Even(heap.piece[p].boundaries[s].pos[2])
  /\ \A k \in 1..Len(global_connection_reports) :
       \A m \in 1..Len(global_connection_reports[k].group) :
         Horizontal(global_connection_reports[k].group[m][1].owner[2])
           = Horizontal(global_connection_reports[k].group[m][2].owner[2])

Uniform ==
  \A p, q \in AllPieces :
    /\ heap.piece[p].image.width = heap.piece[q].image.width
    /\ heap.piece[p].image.height = heap.piece[q].image.height

\* C3: Solver termination. With pieces of one size the solver loop stops only
\* by leaving the while loop, with exactly one live jigsaw that contains all
\* the pieces.
C3_SolverCompletes ==
  (Uniform /\ pc \in {"done", "raised"}) =>
    /\ pc = "done"
    /\ Len(jigsaws) = 1
    /\ {Pieces(jigsaws[1])[k] : k \in 1..Len(Pieces(jigsaws[1]))} = AllPieces

NoJoinablePair ==
  /\ Len(jigsaws) > 1
  /\ \A k \in 1..Len(combinations(jigsaws)) :
       find_all_connections(heap, combinations(jigsaws)[k][1],
                            combinations(jigsaws)[k][2]).valid_connections = <<>>

\* C4: No-joinable-pair terminal condition. When more than one jigsaw is live
\* and no pair of live jigsaws has a valid candidate, the solver has not
\* ended with an unhandled exception.
C4_NoJoinablePairHandled == (error = "none") \/ ~NoJoinablePair

\* C5: Copy-on-trial. A call of find_all_connections leaves every live
\* jigsaw, piece and boundary as it was: membership, positions, is_internal.
C5_CopyOnTrial ==
  [][last'.op = "find_all_connections" => heap' = heap /\ jigsaws' = jigsaws]_vars

\* find_all_connections returned candidates for a jigsaw of two pieces or
\* more, and other trials of the same call raised InvalidJigsaw.
C5_Witness ==
  /\ last.op = "find_all_connections"
  /\ last.invalid > 0
  /\ Len(last.ret) > 0
  /\ Len(Pieces(last.self)) >= 2

\* What of a piece is not a position: its name, its image, and the pixels and
\* the flag of its boundaries.
Unpositioned(piece) ==
  [name |-> piece.name, image |-> piece.image,
   boundaries |-> [s \in Sides |-> [pixels |-> piece.boundaries[s].pixels,
                                    is_internal |-> piece.boundaries[s].is_internal]]]

\* C6: Rollback on collision. When merge_with raises InvalidJigsaw, nothing
\* but the positions of other's pieces and boundaries has changed: the lists
\* of pieces are as they were and no boundary has been flagged.
C6_RollbackOnCollision ==
  [][(last'.op = "merge_with" /\ last'.raised) =>
       /\ heap'.jigsaw = heap.jigsaw
       /\ jigsaws' = jigsaws
       /\ \A p \in AllPieces :
            /\ Unpositioned(heap'.piece[p]) = Unpositioned(heap.piece[p])
            /\ (\A k \in 1..Len(Pieces(last'.other)) : Pieces(last'.other)[k] # p)
                 => heap'.piece[p] = heap.piece[p]]_vars

\* merge_with raised after it had moved the pieces of other.
C6_Witness ==
  /\ MergeRaised
  /\ last.join_boundary_pos # last.other_join_boundary_pos
  /\ Len(Pieces(last.self)) >= 2

\* C7: Degenerate merge. A merge_with that passes the overlap check returns
\* at least one pair of boundaries: one that closes no seam raises instead.
C7_DegenerateMergeRejected == MergeReturned => last.ret # <<>>

\* C8: Ownership transfer is a move. After a successful
\* self.merge_with(other, ...), self.pieces is what it was followed by the
\* pieces other had, and other has no piece.
C8_OwnershipMoved ==
  [][(last'.op = "merge_with" /\ ~last'.raised) =>
       /\ heap'.jigsaw[last'.self].pieces
            = heap.jigsaw[last'.self].pieces \o heap.jigsaw[last'.other].pieces
       /\ heap'.jigsaw[last'.other].pieces = <<>>]_vars

\* C9: Piece conservation. Between the iterations of the solver loop every
\* loaded piece is in exactly one live jigsaw, exactly once.
C9_PieceConservation ==
  pc = "while" =>
    \A p \in AllPieces :
      Cardinality({km \in (1..Len(jigsaws)) \X AllPieces :
                     /\ km[2] <= Len(Pieces(jigsaws[km[1]]))
                     /\ Pieces(jigsaws[km[1]])[km[2]] = p}) = 1

\* The loop is between two iterations, after a commit and before the last.
C9_Witness ==
  /\ pc = "while"
  /\ Len(jigsaws) > 1
  /\ Len(jigsaws) < Len(heap.piece)

\* C10: Internal-flag monotonicity. A boundary that is internal is internal
\* after every step.
C10_InternalMonotone ==
  [][\A p \in AllPieces : \A s \in Sides :
       heap.piece[p].boundaries[s].is_internal
         => heap'.piece[p].boundaries[s].is_internal]_vars

\* merge_with raised after it had moved an other that has internal
\* boundaries.
C10_Witness ==
  /\ MergeRaised
  /\ last.join_boundary_pos # last.other_join_boundary_pos
  /\ internal_boundaries(heap, last.other) # <<>>

\* The offsets of the top, left, bottom and right boundary from the position
\* of their piece (lines 193, 197, 201, 205).
Offsets == <<<<0, -1>>, <<-1, 0>>, <<0, 1>>, <<1, 0>>>>

\* C11: Piece/boundary positional consistency. In every state the top, left,
\* bottom and right boundary of every piece are at the position of the piece
\* plus (0,-0.5), (-0.5,0), (0,0.5), (0.5,0); and every step that moves a
\* piece moves its four boundaries by the same delta.
C11_PositionalConsistency ==
  /\ [](\A p \in AllPieces : \A s \in Sides :
         heap.piece[p].boundaries[s].pos = VAdd(heap.piece[p].pos, Offsets[s]))
  /\ [][\A p \in AllPieces : \A s \in Sides :
          VSub(heap'.piece[p].boundaries[s].pos, heap.piece[p].boundaries[s].pos)
            = VSub(heap'.piece[p].pos, heap.piece[p].pos)]_vars

\* A merge_with returned that moved a jigsaw of two pieces, one of which had
\* been moved before.
C11_Witness ==
  /\ MergeReturned
  /\ last.join_boundary_pos # last.other_join_boundary_pos
  /\ \E p, q \in AllPieces :
       /\ p # q
       /\ heap.piece[p].pos # <<0, 0>>
       /\ heap.piece[q].pos # <<0, 0>>
       /\ heap.piece[p].pos # heap.piece[q].pos

\* C12: Reported pairs carry the shift. For every pair (b, o) that a
\* successful merge_with(other, anchor, other_anchor) returns, b.pos - o.pos
\* is anchor - other_anchor, and o.pos is the position the matched boundary of
\* other had before the call.
C12_PairsCarryShift ==
  [][(last'.op = "merge_with" /\ ~last'.raised) =>
       \A k \in 1..Len(last'.ret) :
         /\ VSub(last'.ret[k][1].pos, last'.ret[k][2].pos)
              = VSub(last'.join_boundary_pos, last'.other_join_boundary_pos)
         /\ \E m \in 1..Len(Pieces(last'.other)) :
              /\ heap.piece[Pieces(last'.other)[m]].name = last'.ret[k][2].owner[1]
              /\ heap.piece[Pieces(last'.other)[m]].boundaries[last'.ret[k][2].owner[2]].pos
                   = last'.ret[k][2].pos]_vars

\* A merge_with that moved other returned two pairs or more.
C12_Witness ==
  /\ MergeReturned
  /\ last.join_boundary_pos # last.other_join_boundary_pos
  /\ Len(last.ret) >= 2

\* Piece q is the right neighbour (side 4 against side 2) or the lower
\* neighbour (side 3 against side 1) of piece p in the source grid: the edges
\* match.
GridNeighbour(p, s, q, t) ==
  /\ p # q
  /\ heap.piece[p].boundaries[s].pixels = heap.piece[q].boundaries[t].pixels

\* C13: 2x2 reconstruction. For the four pieces of a 2x2 grid whose edges
\* match only their true neighbours, the solver stops by leaving the loop,
\* with one jigsaw of the four pieces in which every piece is one to the right
\* of its left neighbour and one below its upper neighbour, as in the source
\* grid.
C13_GridReconstructed ==
  pc \in {"done", "raised"} =>
    /\ pc = "done"
    /\ error = "none"
    /\ Len(jigsaws) = 1
    /\ {Pieces(jigsaws[1])[k] : k \in 1..Len(Pieces(jigsaws[1]))} = AllPieces
    /\ Len(Pieces(jigsaws[1])) = 4
    /\ \A p, q \in AllPieces :
         /\ GridNeighbour(p, 4, q, 2)
              => VSub(heap.piece[q].pos, heap.piece[p].pos) = <<2, 0>>
         /\ GridNeighbour(p, 3, q, 1)
              => VSub(heap.piece[q].pos, heap.piece[p].pos) = <<0, 2>>

\* The solver has stopped on the four pieces of a grid, two of which are the
\* left and the right half of a row.
C13_Witness ==
  /\ pc = "done"
  /\ Len(heap.piece) = 4
  /\ \E p, q \in AllPieces : GridNeighbour(p, 4, q, 2)

\* Lines 231-244 computed anew for the jigsaws jigsaw_1 and jigsaw_2 of the
\* heap H: the report that would be published, or the exception raised.
recomputed(H, jigsaw_1, jigsaw_2) ==
  LET valid_connections == find_all_connections(H, jigsaw_1, jigsaw_2).valid_connections
      raises == reports_error(valid_connections)
  IN IF raises # "none"
     THEN [error |-> raises, group |-> <<>>, score |-> NoBest.score]
     ELSE LET report == min_score(List([k \in 1..Len(valid_connections) |->
                                          connection_report(valid_connections[k])]))
          IN [error |-> "none", group |-> report.group, score |-> report.score]

\* C14: Global greedy choice. At every selection the jigsaws that will be
\* merged are a pair whose stored score is the least of the memo table, the
\* table has an entry for the key of every pair of live jigsaws, and the
\* chosen score is at most the best candidate score of every pair of live
\* jigsaws.
C14_GlobalGreedyChoice ==
  [][(pc = "for" /\ pc' = "commit") =>
       /\ \A k \in 1..Len(global_connection_reports) :
            ScoreLeq(best'.score, global_connection_reports[k].score)
       /\ \E k \in 1..Len(global_connection_reports) :
            /\ global_connection_reports[k].key
                 = <<name(heap, best'.jigsaw_1), name(heap, best'.jigsaw_2)>>
            /\ global_connection_reports[k].score = best'.score
       /\ \A m \in 1..Len(combinations(jigsaws)) :
            /\ in_reports(global_connection_reports,
                          <<name(heap, combinations(jigsaws)[m][1]),
                            name(heap, combinations(jigsaws)[m][2])>>)
            /\ \A r \in {recomputed(heap, combinations(jigsaws)[m][1],
                                     combinations(jigsaws)[m][2])} :
                 r.error = "none" => ScoreLeq(best'.score, r.score)]_vars

Mentions(key, n) == key[1] = n \/ key[2] = n

\* C15: Memo invalidation on commit. The selection removes from the memo
\* table exactly the entries whose key has the name of one of the two jigsaws
\* that will be merged and keeps every other entry as it is; the commit
\* leaves the table alone, so after it no key has a pre-merge name of the
\* surviving or of the absorbed jigsaw.
C15_MemoInvalidation ==
  /\ [][(pc = "for" /\ pc' = "commit") =>
          global_connection_reports' =
            SelectSeq(global_connection_reports,
                      LAMBDA r : /\ ~Mentions(r.key, name(heap, best'.jigsaw_1))
                                 /\ ~Mentions(r.key, name(heap, best'.jigsaw_2)))]_vars
  /\ [][(pc = "commit" /\ pc' = "while") =>
          /\ global_connection_reports' = global_connection_reports
          /\ \A k \in 1..Len(global_connection_reports') :
               /\ ~Mentions(global_connection_reports'[k].key, name(heap, best.jigsaw_1))
               /\ ~Mentions(global_connection_reports'[k].key, name(heap, best.jigsaw_2))]_vars

\* A commit was made while the memo table had entries of other pairs, which
\* are kept.
C15_Witness ==
  /\ pc = "while"
  /\ last.op = "merge_with"
  /\ ~last.raised
  /\ global_connection_reports # <<>>

\* Some pair of live jigsaws has candidates and a report.
SomeJoinablePair ==
  \E m \in 1..Len(combinations(jigsaws)) :
    recomputed(heap, combinations(jigsaws)[m][1], combinations(jigsaws)[m][2]).error = "none"

\* C16: Pairs without candidates are skipped. When find_all_connections
\* returns no candidate for a pair of the for loop while another pair of live
\* jigsaws is joinable, no exception ends the program: the pair gets no memo
\* entry and the for loop goes on.
C16_EmptyPairSkipped ==
  (last.op = "find_all_connections" /\ last.ret = <<>> /\ SomeJoinablePair) =>
    /\ error = "none"
    /\ pc = "for"
    /\ ~in_reports(global_connection_reports,
                   <<name(heap, last.self), name(heap, last.other)>>)

\* C17: Commit replays the trial. The merge_with of a commit, called on the
\* live jigsaws with the positions of the first pair of the memoized group,
\* does not raise InvalidJigsaw, and it returns the pairs of the group: the
\* same boundaries (owning piece and side) in the same order, under the same
\* shift.
C17_CommitReplaysTrial ==
  last.op = "merge_with" =>
    /\ ~last.raised
    /\ Len(last.ret) = Len(best.group)
    /\ \A k \in 1..Len(last.ret) :
         /\ k <= Len(best.group)
         /\ last.ret[k][1].owner = best.group[k][1].owner
         /\ last.ret[k][2].owner = best.group[k][2].owner
         /\ VSub(last.ret[k][1].pos, last.ret[k][2].pos)
              = VSub(best.group[k][1].pos, best.group[k][2].pos)

\* C18: Memo coherence. At the moment of selection every entry of the memo
\* table has the key of a pair of live jigsaws, and for every pair of live
\* jigsaws the entry of its key has the score and the group that lines
\* 231-244 compute for the pair as it is now.
C18_MemoCoherence ==
  (pc = "for" /\ it > Len(combinations(jigsaws))) =>
    /\ \A k \in 1..Len(global_connection_reports) :
         \E m \in 1..Len(combinations(jigsaws)) :
           global_connection_reports[k].key
             = <<name(heap, combinations(jigsaws)[m][1]),
                 name(heap, combinations(jigsaws)[m][2])>>
    /\ \A m \in 1..Len(combinations(jigsaws)) :
         \A k \in 1..Len(global_connection_reports) :
           global_connection_reports[k].key
             = <<name(heap, combinations(jigsaws)[m][1]),
                 name(heap, combinations(jigsaws)[m][2])>>
           => \A r \in {recomputed(heap, combinations(jigsaws)[m][1],
                                   combinations(jigsaws)[m][2])} :
                /\ r.error = "none"
                /\ r.score = global_connection_reports[k].score
                /\ r.group = global_connection_reports[k].group

\* The boundaries of the other pieces of jigsaw j that are where the boundary
\* of side s of its piece p is.
Coincident(j, p, s) ==
  {qt \in {Pieces(j)[k] : k \in 1..Len(Pieces(j))} \X Sides :
     /\ qt[1] # p
     /\ heap.piece[qt[1]].boundaries[qt[2]].pos = heap.piece[p].boundaries[s].pos}

\* C19: External means unmatched. In every live jigsaw a boundary is external
\* exactly when no boundary of another piece of the jigsaw has its position,
\* and an internal boundary has its position in common with an internal
\* boundary of another piece.
C19_ExternalMeansUnmatched ==
  \A j \in Live : \A k \in 1..Len(Pieces(j)) : \A s \in Sides :
    /\ ~heap.piece[Pieces(j)[k]].boundaries[s].is_internal
         <=> Coincident(j, Pieces(j)[k], s) = {}
    /\ heap.piece[Pieces(j)[k]].boundaries[s].is_internal
         => \E qt \in Coincident(j, Pieces(j)[k], s) :
              heap.piece[qt[1]].boundaries[qt[2]].is_internal

\* C20: Assembly names identify assemblies. The loaded pieces have pairwise
\* distinct names; in every state of the solver loop two different live
\* jigsaws have different names, and the lookup by name of a selection
\* returns two different jigsaws, the first of the name of the first key
\* component and the second of the name of the second.
C20_NamesIdentifyJigsaws ==
  /\ \A k, m \in 1..Len(jigsaws) :
       k # m => name(heap, jigsaws[k]) # name(heap, jigsaws[m])
  /\ pc = "commit" => best.jigsaw_1 # best.jigsaw_2
====
